---- MODULE Spec2Model ----
(***************************************************************************)
(* Model of dual_cam_capture.py: DualCameraController, its construction    *)
(* (setup_cameras), the control loop (run) and the operations the loop     *)
(* dispatches.  The program is single threaded; pc is the position of the  *)
(* one thread.  Every call to a collaborator (camera driver, codec,        *)
(* window, keyboard) is appended to calls, a log of the current loop       *)
(* iteration.  A collaborator call may raise; an exception raised inside   *)
(* run() is caught nowhere and ends the process ("crashed"), an exception  *)
(* inside setup_cameras is caught and followed by exit(1) ("exited").      *)
(***************************************************************************)
EXTENDS Integers, Sequences, FiniteSets, TLC

\* Bound of the model: how many keys other than quit the operator presses.
MaxCommands == 5

\* Bound of the model, for the runs without a key budget: the operator
\* adjusts a camera only while the other camera is at most this many steps
\* away from its initial exposure and brightness.
MaxOtherSteps == 2

\* range(2): the two camera indices.
Slots == 0 .. 1

\* self.resolution_options
resolution_options ==
    << <<640, 480>>, <<1280, 720>>, <<1920, 1080>>, <<2592, 1944>> >>

\* self.resolution_options[k] with Python's 0-based index.
ResolutionAt(k) == resolution_options[k + 1]

\* lores={"size": (640, 480)}: the low resolution stream of every configuration.
LoresSize == <<640, 480>>

Min(a, b) == IF a < b THEN a ELSE b
Max(a, b) == IF a > b THEN a ELSE b

\* ord() of the characters the dispatch chain compares the key with.
Ord ==
    [ch \in {"q", "1", "2", "s", "d", "r", "e", "c", "b", "v", "p"} |->
        CASE ch = "q" -> 113 [] ch = "1" -> 49  [] ch = "2" -> 50
          [] ch = "s" -> 115 [] ch = "d" -> 100 [] ch = "r" -> 114
          [] ch = "e" -> 101 [] ch = "c" -> 99  [] ch = "b" -> 98
          [] ch = "v" -> 118 [] ch = "p" -> 112]

\* What cv2.waitKey(1) may return: -1 (no key), the eleven command keys, a key
\* that is no command ('x'), and a command key with a modifier bit above the
\* low byte ('q' with bit 20 set, as window backends report it).
RawKeys ==
    {-1, 120, 1048689} \cup {Ord[ch] : ch \in DOMAIN Ord}

\* key = cv2.waitKey(1) & 0xFF
MaskKey(raw) == raw % 256

\* One entry of the log: a call to a collaborator, or an adjust operation
\* entered with the value it found and the direction (1 up, -1 down).
\* arg is a tuple of integers.
Call(op, slot, arg) == [op |-> op, slot |-> slot, arg |-> arg]

VARIABLES
    pc,                     \* position of the thread
    i,                      \* loop variable of the for loop being executed
    cameras,                \* self.cameras: the device indices appended
    active_camera,          \* self.active_camera
    preview_active,         \* self.preview_active
    exposure_values,        \* self.exposure_values
    brightness_values,      \* self.brightness_values
    current_resolution_idx, \* self.current_resolution_idx
    dev,                    \* the two devices: state, configured size, applied EV
    frames,                 \* the local list frames of the current iteration
    files,                  \* labels of the snapshot files on disk
    calls,                  \* collaborator calls of the current iteration
    ncmd,                   \* keys dispatched so far (quit excluded)
    resTrail                \* index before each of the last cycle-resolution commands

vars ==
    << pc, i, cameras, active_camera, preview_active, exposure_values,
       brightness_values, current_resolution_idx, dev, frames, files, calls,
       ncmd, resTrail >>

params ==
    << active_camera, preview_active, exposure_values, brightness_values,
       current_resolution_idx >>

\* A device before Picamera2(i) opened it; 0 is the driver's default EV.
ClosedDevice == [state |-> "closed", size |-> <<0, 0>>, lores |-> <<0, 0>>, ev |-> 0]

\* DualCameraController.__init__ up to the call of setup_cameras.
Init ==
    /\ pc = "setup_dir"
    /\ i = 0
    /\ cameras = << >>
    /\ active_camera = 0
    /\ preview_active = TRUE
    /\ exposure_values = [s \in Slots |-> 0]
    /\ brightness_values = [s \in Slots |-> 0]
    /\ current_resolution_idx = 0
    /\ dev = [s \in Slots |-> ClosedDevice]
    /\ frames = << >>
    /\ files = {}
    /\ calls = << >>
    /\ ncmd = 0
    /\ resTrail = << >>

\* An exception leaves run(): nothing catches it, the process ends.
Crash(log) ==
    /\ pc' = "crashed"
    /\ calls' = Append(log, Call("raise", -1, << >>))

\* setup_cameras with the exit(1) left out: the error is printed, the
\* constructor returns and run() is entered.
ExitInitReturns(log) ==
    /\ pc' = "capture"
    /\ calls' = log \o << Call("raise", -1, << >>),
                          Call("print_init_error", -1, << >>) >>

\* except Exception in setup_cameras: print the error, exit(1).
ExitInit(log) ==
    /\ pc' = "exited"
    /\ calls' = log \o << Call("raise", -1, << >>),
                          Call("print_init_error", -1, << >>),
                          Call("exit", -1, <<1>>) >>

----------------------------------------------------------------------------
(* setup_cameras *)

\* os.path.exists / os.makedirs of the save directory.
SetupDirectory(ok) ==
    /\ pc = "setup_dir"
    /\ IF ok
         THEN /\ pc' = "setup_open"
              /\ calls' = Append(calls, Call("makedirs", -1, << >>))
         ELSE ExitInit(Append(calls, Call("makedirs", -1, << >>)))
    /\ UNCHANGED << i, cameras, params, dev, frames, files, ncmd, resTrail >>

\* camera = Picamera2(i)
SetupOpen(ok) ==
    /\ pc = "setup_open"
    /\ LET log == Append(calls, Call("open", i, << >>)) IN
       IF ok
         THEN /\ pc' = "setup_configure"
              /\ calls' = log
              /\ dev' = [dev EXCEPT ![i].state = "open"]
         ELSE /\ ExitInit(log)
              /\ UNCHANGED dev
    /\ UNCHANGED << i, cameras, params, frames, files, ncmd, resTrail >>

\* camera.configure(create_preview_configuration(main=resolution_options[idx], ...))
SetupConfigure(ok) ==
    /\ pc = "setup_configure"
    /\ LET size == ResolutionAt(current_resolution_idx)
           log == Append(calls, Call("configure", i, size)) IN
       IF ok
         THEN /\ pc' = "setup_start"
              /\ calls' = log
              /\ dev' = [dev EXCEPT ![i].state = "configured",
                                    ![i].size = size,
                                    ![i].lores = LoresSize]
         ELSE /\ ExitInit(log)
              /\ UNCHANGED dev
    /\ UNCHANGED << i, cameras, params, frames, files, ncmd, resTrail >>

\* camera.start(); self.cameras.append(camera); after the second camera the
\* constructor returns and controller.run() starts the loop.
SetupStart(ok) ==
    /\ pc = "setup_start"
    /\ LET log == Append(calls, Call("start", i, << >>)) IN
       IF ok
         THEN /\ dev' = [dev EXCEPT ![i].state = "started"]
              /\ cameras' = Append(cameras, i)
              /\ IF i + 1 \in Slots
                   THEN /\ i' = i + 1
                        /\ pc' = "setup_open"
                        /\ calls' = log
                   ELSE /\ i' = 0
                        /\ pc' = "capture"
                        /\ calls' = Append(log, Call("print_init_ok", -1, << >>))
         ELSE /\ ExitInit(log)
              /\ UNCHANGED << dev, cameras, i >>
    /\ UNCHANGED << params, frames, files, ncmd, resTrail >>

----------------------------------------------------------------------------
(* run: capture, process and display *)

\* The body of the capture loop for one camera after capture_array():
\* convertScaleAbs with beta = brightness (when non-zero), then
\* add_info_overlay, which prints the recorded values and draws the border
\* on the active camera's frame.
ProcessFrame(k) ==
    [ slot     |-> k,
      size     |-> dev[cameras[k + 1]].size,
      beta     |-> brightness_values[k],
      overlay  |-> TRUE,
      shownEV  |-> exposure_values[k],
      border   |-> (k = active_camera) ]

\* The capture loop walking self.cameras from its end.
CaptureFrameReversed(ok) ==
    /\ pc = "capture"
    /\ i < Len(cameras)
    /\ LET cam == cameras[Len(cameras) - i]
           log == Append(IF i = 0 THEN << >> ELSE calls,
                         Call("capture_array", cam, << >>)) IN
       IF ok /\ dev[cam].state = "started"
         THEN /\ frames' = Append(IF i = 0 THEN << >> ELSE frames,
                                  ProcessFrame(Len(cameras) - i - 1))
              /\ calls' = log
              /\ IF i + 1 < Len(cameras)
                   THEN i' = i + 1 /\ pc' = "capture"
                   ELSE i' = 0 /\ pc' = "display"
         ELSE /\ Crash(log)
              /\ UNCHANGED << frames, i >>
    /\ UNCHANGED << cameras, params, dev, files, ncmd, resTrail >>

\* for i, camera in enumerate(self.cameras): frame = camera.capture_array() ...
\* The first pass starts the iteration: frames = [].  A device that is not
\* started delivers no frame.
CaptureFrame(ok) ==
    /\ pc = "capture"
    /\ i < Len(cameras)
    /\ LET cam == cameras[i + 1]
           log == Append(IF i = 0 THEN << >> ELSE calls,
                         Call("capture_array", cam, << >>)) IN
       IF ok /\ dev[cam].state = "started"
         THEN /\ frames' = Append(IF i = 0 THEN << >> ELSE frames, ProcessFrame(i))
              /\ calls' = log
              /\ IF i + 1 < Len(cameras)
                   THEN i' = i + 1 /\ pc' = "capture"
                   ELSE i' = 0 /\ pc' = "display"
         ELSE /\ Crash(log)
              /\ UNCHANGED << frames, i >>
    /\ UNCHANGED << cameras, params, dev, files, ncmd, resTrail >>

\* np.hstack of the frames: widths add up, the height is the frames' height.
CombinedSize(fs) ==
    << fs[1].size[1] + fs[2].size[1], fs[1].size[2] >>

\* The display with the test of preview_active left out.
DisplayAlways ==
    /\ pc = "display"
    /\ calls' = Append(calls, Call("imshow", -1, CombinedSize(frames)))
    /\ frames' = << >>
    /\ pc' = "poll"
    /\ UNCHANGED << i, cameras, params, dev, files, ncmd, resTrail >>

\* if self.preview_active: cv2.imshow(...).  frames is not read afterwards.
Display ==
    /\ pc = "display"
    /\ calls' = IF preview_active
                  THEN Append(calls, Call("imshow", -1, CombinedSize(frames)))
                  ELSE calls
    /\ frames' = << >>
    /\ pc' = "poll"
    /\ UNCHANGED << i, cameras, params, dev, files, ncmd, resTrail >>

----------------------------------------------------------------------------
(* the operations *)

\* adjust_exposure with the upper clamp forgotten.
ExposureAfterUnclamped(v, direction) ==
    IF direction = "up" THEN v + 1 ELSE Max(-8, v - 1)

\* min(8, v + 1) for "up", max(-8, v - 1) otherwise.
ExposureAfter(v, direction) ==
    IF direction = "up" THEN Min(8, v + 1) ELSE Max(-8, v - 1)

\* adjust_brightness with min written for max in the "down" branch.
BrightnessAfterMinForMax(v, direction) ==
    IF direction = "up" THEN Min(100, v + 5) ELSE Min(-100, v - 5)

\* min(100, v + 5) for "up", max(-100, v - 5) otherwise.
BrightnessAfter(v, direction) ==
    IF direction = "up" THEN Min(100, v + 5) ELSE Max(-100, v - 5)

\* change_resolution wrapping one option too early.
NextResolutionIdxShort(k) == (k + 1) % (Len(resolution_options) - 1)

\* (idx + 1) % len(self.resolution_options)
NextResolutionIdx(k) == (k + 1) % Len(resolution_options)

\* How one capture_image call can end: the file is written; capture_array
\* raises; cv2.imwrite returns False (nothing written, no exception);
\* cv2.imwrite raises.
SnapshotOutcomes == {"ok", "capture_fault", "write_false", "write_raise"}

SnapshotRaises(outcome) == outcome \in {"capture_fault", "write_raise"}

\* The outcomes a device in the given state allows: only a started device
\* delivers a frame.
SnapshotPossible(cam, outcome) ==
    dev[cam].state = "started" \/ outcome = "capture_fault"

\* capture_image writing the frame as captured, brightness not applied.
ImwriteCallNoBrightness(camera_idx, written) ==
    Call("imwrite", camera_idx,
         << camera_idx + 1, cameras[camera_idx + 1], 0, 0, IF written THEN 1 ELSE 0 >>)

\* The image handed to cv2.imwrite by capture_image(camera_idx): label
\* camera_idx + 1, the frame of self.cameras[camera_idx], the brightness
\* offset, no overlay (0), and whether a file came out of it.
ImwriteCall(camera_idx, written) ==
    Call("imwrite", camera_idx,
         << camera_idx + 1, cameras[camera_idx + 1],
            brightness_values[camera_idx], 0, IF written THEN 1 ELSE 0 >>)

\* The collaborator calls of capture_image(camera_idx) up to its return or
\* to the call that raises.  The return value of cv2.imwrite is not looked
\* at: "Image saved as ..." is printed whenever imwrite returns.
CaptureImageCalls(camera_idx, outcome) ==
    LET capture == Call("capture_array", cameras[camera_idx + 1], << >>) IN
    CASE outcome = "capture_fault" -> << capture >>
      [] outcome = "write_raise"   -> << capture, ImwriteCall(camera_idx, FALSE) >>
      [] outcome = "write_false"   -> << capture, ImwriteCall(camera_idx, FALSE),
                                         Call("print_saved", camera_idx, <<camera_idx + 1>>) >>
      [] outcome = "ok"            -> << capture, ImwriteCall(camera_idx, TRUE),
                                         Call("print_saved", camera_idx, <<camera_idx + 1>>) >>

\* The files on disk after capture_image(camera_idx).
CaptureImageFiles(camera_idx, outcome) ==
    IF outcome = "ok" THEN files \cup {camera_idx + 1} ELSE files

\* key = cv2.waitKey(1) & 0xFF
Polled(raw) == Append(calls, Call("waitKey", -1, <<MaskKey(raw)>>))

\* elif key == ord('1') / ord('2'): select camera 1 or 2.
KeySelect(raw) ==
    /\ pc = "poll"
    /\ MaskKey(raw) \in {Ord["1"], Ord["2"]}
    /\ active_camera' = IF MaskKey(raw) = Ord["1"] THEN 0 ELSE 1
    /\ calls' = Append(Polled(raw), Call("print_selected", active_camera', << >>))
    /\ pc' = "capture"
    /\ UNCHANGED << i, cameras, preview_active, exposure_values, brightness_values,
                    current_resolution_idx, dev, frames, files, resTrail >>

\* The save key always saving the first camera.
KeySaveActiveFirst(raw, outcome) ==
    /\ pc = "poll"
    /\ MaskKey(raw) = Ord["s"]
    /\ SnapshotPossible(cameras[1], outcome)
    /\ LET log == Polled(raw) \o CaptureImageCalls(0, outcome) IN
       IF SnapshotRaises(outcome)
         THEN Crash(log)
         ELSE pc' = "capture" /\ calls' = log
    /\ files' = CaptureImageFiles(0, outcome)
    /\ UNCHANGED << i, cameras, params, dev, frames, resTrail >>

\* elif key == ord('s'): self.capture_image(self.active_camera)
KeySaveActive(raw, outcome) ==
    /\ pc = "poll"
    /\ MaskKey(raw) = Ord["s"]
    /\ SnapshotPossible(cameras[active_camera + 1], outcome)
    /\ LET log == Polled(raw) \o CaptureImageCalls(active_camera, outcome) IN
       IF SnapshotRaises(outcome)
         THEN Crash(log)
         ELSE pc' = "capture" /\ calls' = log
    /\ files' = CaptureImageFiles(active_camera, outcome)
    /\ UNCHANGED << i, cameras, params, dev, frames, resTrail >>

\* elif key == ord('d'): for i in range(2): ...
KeySaveAll(raw) ==
    /\ pc = "poll"
    /\ MaskKey(raw) = Ord["d"]
    /\ calls' = Polled(raw)
    /\ i' = 0
    /\ pc' = "saveall"
    /\ UNCHANGED << cameras, params, dev, frames, files, resTrail >>

\* ... self.capture_image(i)
SaveAllStep(outcome) ==
    /\ pc = "saveall"
    /\ SnapshotPossible(cameras[i + 1], outcome)
    /\ LET log == calls \o CaptureImageCalls(i, outcome) IN
       IF SnapshotRaises(outcome)
         THEN Crash(log) /\ UNCHANGED i
         ELSE /\ calls' = log
              /\ IF i + 1 \in Slots
                   THEN i' = i + 1 /\ pc' = "saveall"
                   ELSE i' = 0 /\ pc' = "capture"
    /\ files' = CaptureImageFiles(i, outcome)
    /\ UNCHANGED << cameras, params, dev, frames, ncmd, resTrail >>

\* The last N indices the cycle-resolution commands started from, N being
\* the number of options (a history of the run, read by no operation).
Trail(k) ==
    LET t == Append(resTrail, k) IN
    IF Len(t) > Len(resolution_options) THEN Tail(t) ELSE t

\* elif key == ord('r'): change_resolution() up to its for loop.
KeyResolution(raw) ==
    /\ pc = "poll"
    /\ MaskKey(raw) = Ord["r"]
    /\ current_resolution_idx' = NextResolutionIdx(current_resolution_idx)
    /\ resTrail' = Trail(current_resolution_idx)
    /\ calls' = Polled(raw)
    /\ i' = 0
    /\ pc' = "reconf_stop"
    /\ UNCHANGED << cameras, active_camera, preview_active, exposure_values,
                    brightness_values, dev, frames, files >>

\* change_resolution stopping every camera before it reconfigures the first.
ReconfStopAll(ok) ==
    /\ pc = "reconf_stop"
    /\ LET stops == [k \in 1 .. Len(cameras) |-> Call("stop", cameras[k], << >>)]
           log == IF i = 0 THEN calls \o stops ELSE calls IN
       IF ok
         THEN /\ dev' = [s \in Slots |->
                            IF i = 0 THEN [dev[s] EXCEPT !.state = "stopped"] ELSE dev[s]]
              /\ calls' = log
              /\ pc' = "reconf_configure"
         ELSE /\ Crash(log)
              /\ UNCHANGED dev
    /\ UNCHANGED << i, cameras, params, frames, files, ncmd, resTrail >>

\* camera.stop()
ReconfStop(ok) ==
    /\ pc = "reconf_stop"
    /\ LET cam == cameras[i + 1]
           log == Append(calls, Call("stop", cam, << >>)) IN
       IF ok
         THEN /\ dev' = [dev EXCEPT ![cam].state = "stopped"]
              /\ calls' = log
              /\ pc' = "reconf_configure"
         ELSE /\ Crash(log)
              /\ UNCHANGED dev
    /\ UNCHANGED << i, cameras, params, frames, files, ncmd, resTrail >>

\* The EV a device may run with after configure(): the configuration built
\* by create_preview_configuration(main, lores, display) names no
\* ExposureValue and change_resolution sends none, so the driver either
\* keeps the value it had or falls back to its default.
EVAfterConfigure(cam) == {dev[cam].ev, ClosedDevice.ev}

\* camera.configure(create_preview_configuration(main={"size": resolution}, ...))
ReconfConfigure(ok, ev) ==
    /\ pc = "reconf_configure"
    /\ LET cam == cameras[i + 1]
           resolution == ResolutionAt(current_resolution_idx)
           log == Append(calls, Call("configure", cam, resolution)) IN
       IF ok
         THEN /\ ev \in EVAfterConfigure(cam)
              /\ dev' = [dev EXCEPT ![cam].state = "configured",
                                    ![cam].size = resolution,
                                    ![cam].lores = LoresSize,
                                    ![cam].ev = ev]
              /\ calls' = log
              /\ pc' = "reconf_start"
         ELSE /\ ev = dev[cam].ev
              /\ Crash(log)
              /\ UNCHANGED dev
    /\ UNCHANGED << i, cameras, params, frames, files, ncmd, resTrail >>

\* change_resolution without the camera.start(): the devices stay configured.
ReconfStartSkipped(ok) ==
    /\ pc = "reconf_start"
    /\ IF i + 1 < Len(cameras)
         THEN /\ i' = i + 1
              /\ pc' = "reconf_stop"
              /\ calls' = calls
         ELSE /\ i' = 0
              /\ pc' = "capture"
              /\ calls' = Append(calls,
                     Call("print_resolution", -1,
                          ResolutionAt(current_resolution_idx)))
    /\ UNCHANGED << cameras, params, dev, frames, files, ncmd, resTrail >>

\* camera.start(); after the last camera print the new resolution and
\* return to the loop.
ReconfStart(ok) ==
    /\ pc = "reconf_start"
    /\ LET cam == cameras[i + 1]
           log == Append(calls, Call("start", cam, << >>)) IN
       IF ok
         THEN /\ dev' = [dev EXCEPT ![cam].state = "started"]
              /\ IF i + 1 < Len(cameras)
                   THEN /\ i' = i + 1
                        /\ pc' = "reconf_stop"
                        /\ calls' = log
                   ELSE /\ i' = 0
                        /\ pc' = "capture"
                        /\ calls' = Append(log,
                               Call("print_resolution", -1,
                                    ResolutionAt(current_resolution_idx)))
         ELSE /\ Crash(log)
              /\ UNCHANGED << dev, i >>
    /\ UNCHANGED << cameras, params, frames, files, ncmd, resTrail >>

\* The exposure keys sending the value to the first camera's device, whichever
\* camera is active.
KeyExposureFirstDevice(raw, ok) ==
    /\ pc = "poll"
    /\ MaskKey(raw) \in {Ord["e"], Ord["c"]}
    /\ LET direction == IF MaskKey(raw) = Ord["e"] THEN "up" ELSE "down"
           camera_idx == active_camera
           value == ExposureAfter(exposure_values[camera_idx], direction)
           cam == cameras[1]
           log == Polled(raw) \o
                  << Call("adjust_exposure", camera_idx,
                          << exposure_values[camera_idx],
                             IF direction = "up" THEN 1 ELSE -1 >>),
                     Call("set_controls", cam, <<value>>) >> IN
       /\ exposure_values' = [exposure_values EXCEPT ![camera_idx] = value]
       /\ IF ok
            THEN /\ dev' = [dev EXCEPT ![cam].ev = value]
                 /\ calls' = Append(log, Call("print_exposure", camera_idx, <<value>>))
                 /\ pc' = "capture"
            ELSE /\ Crash(log)
                 /\ UNCHANGED dev
    /\ UNCHANGED << i, cameras, active_camera, preview_active, brightness_values,
                    current_resolution_idx, frames, files, resTrail >>

\* elif key == ord('e') / ord('c'): adjust_exposure(active_camera, "up"/"down"):
\* the recorded value is stepped first, then sent with set_controls.
KeyExposure(raw, ok) ==
    /\ pc = "poll"
    /\ MaskKey(raw) \in {Ord["e"], Ord["c"]}
    /\ LET direction == IF MaskKey(raw) = Ord["e"] THEN "up" ELSE "down"
           camera_idx == active_camera
           value == ExposureAfter(exposure_values[camera_idx], direction)
           cam == cameras[camera_idx + 1]
           log == Polled(raw) \o
                  << Call("adjust_exposure", camera_idx,
                          << exposure_values[camera_idx],
                             IF direction = "up" THEN 1 ELSE -1 >>),
                     Call("set_controls", cam, <<value>>) >> IN
       /\ exposure_values' = [exposure_values EXCEPT ![camera_idx] = value]
       /\ IF ok
            THEN /\ dev' = [dev EXCEPT ![cam].ev = value]
                 /\ calls' = Append(log, Call("print_exposure", camera_idx, <<value>>))
                 /\ pc' = "capture"
            ELSE /\ Crash(log)
                 /\ UNCHANGED dev
    /\ UNCHANGED << i, cameras, active_camera, preview_active, brightness_values,
                    current_resolution_idx, frames, files, resTrail >>

\* elif key == ord('b') / ord('v'): adjust_brightness(active_camera, "up"/"down").
KeyBrightness(raw) ==
    /\ pc = "poll"
    /\ MaskKey(raw) \in {Ord["b"], Ord["v"]}
    /\ LET direction == IF MaskKey(raw) = Ord["b"] THEN "up" ELSE "down"
           camera_idx == active_camera
           value == BrightnessAfter(brightness_values[camera_idx], direction) IN
       /\ brightness_values' = [brightness_values EXCEPT ![camera_idx] = value]
       /\ calls' = Polled(raw) \o
                   << Call("adjust_brightness", camera_idx,
                           << brightness_values[camera_idx],
                              IF direction = "up" THEN 1 ELSE -1 >>),
                      Call("print_brightness", camera_idx, <<value>>) >>
    /\ pc' = "capture"
    /\ UNCHANGED << i, cameras, active_camera, preview_active, exposure_values,
                    current_resolution_idx, dev, frames, files, resTrail >>

\* The preview key only ever pausing the preview.
KeyPreviewPauseOnly(raw) ==
    /\ pc = "poll"
    /\ MaskKey(raw) = Ord["p"]
    /\ preview_active' = FALSE
    /\ calls' = Append(Polled(raw), Call("print_preview", -1, << >>))
    /\ pc' = "capture"
    /\ UNCHANGED << i, cameras, active_camera, exposure_values, brightness_values,
                    current_resolution_idx, dev, frames, files, resTrail >>

\* elif key == ord('p'): self.preview_active = not self.preview_active
KeyPreview(raw) ==
    /\ pc = "poll"
    /\ MaskKey(raw) = Ord["p"]
    /\ preview_active' = ~preview_active
    /\ calls' = Append(Polled(raw), Call("print_preview", -1, << >>))
    /\ pc' = "capture"
    /\ UNCHANGED << i, cameras, active_camera, exposure_values, brightness_values,
                    current_resolution_idx, dev, frames, files, resTrail >>

\* The if/elif chain ending in an else that toggles the preview.
KeyOtherToggles(raw) ==
    /\ pc = "poll"
    /\ MaskKey(raw) \notin {Ord[ch] : ch \in DOMAIN Ord}
    /\ calls' = Polled(raw)
    /\ preview_active' = ~preview_active
    /\ pc' = "capture"
    /\ UNCHANGED << i, cameras, active_camera, exposure_values, brightness_values,
                    current_resolution_idx, dev, frames, files, resTrail >>

\* No branch of the if/elif chain matches: the loop goes on.
KeyOther(raw) ==
    /\ pc = "poll"
    /\ MaskKey(raw) \notin {Ord[ch] : ch \in DOMAIN Ord}
    /\ calls' = Polled(raw)
    /\ pc' = "capture"
    /\ UNCHANGED << i, cameras, params, dev, frames, files, resTrail >>

\* if key == ord('q'): break
KeyQuit(raw) ==
    /\ pc = "poll"
    /\ MaskKey(raw) = Ord["q"]
    /\ calls' = Polled(raw)
    /\ pc' = "cleanup_windows"
    /\ UNCHANGED << i, cameras, params, dev, frames, files, ncmd, resTrail >>

\* cv2.destroyAllWindows()
CleanupWindows ==
    /\ pc = "cleanup_windows"
    /\ calls' = Append(calls, Call("destroyAllWindows", -1, << >>))
    /\ i' = 0
    /\ pc' = "cleanup_stop"
    /\ UNCHANGED << cameras, params, dev, frames, files, ncmd, resTrail >>

\* The cleanup stopping only the first camera.
CleanupStopFirstOnly(ok) ==
    /\ pc = "cleanup_stop"
    /\ LET cam == cameras[i + 1]
           log == Append(calls, Call("stop", cam, << >>)) IN
       IF ok
         THEN /\ dev' = [dev EXCEPT ![cam].state = "stopped"]
              /\ i' = 0
              /\ pc' = "done"
              /\ calls' = Append(log, Call("print_terminated", -1, << >>))
         ELSE /\ Crash(log)
              /\ UNCHANGED << dev, i >>
    /\ UNCHANGED << cameras, params, frames, files, ncmd, resTrail >>

\* for camera in self.cameras: camera.stop(); then print "Application terminated".
CleanupStop(ok) ==
    /\ pc = "cleanup_stop"
    /\ LET cam == cameras[i + 1]
           log == Append(calls, Call("stop", cam, << >>)) IN
       IF ok
         THEN /\ dev' = [dev EXCEPT ![cam].state = "stopped"]
              /\ IF i + 1 < Len(cameras)
                   THEN /\ i' = i + 1
                        /\ pc' = "cleanup_stop"
                        /\ calls' = log
                   ELSE /\ i' = 0
                        /\ pc' = "done"
                        /\ calls' = Append(log, Call("print_terminated", -1, << >>))
         ELSE /\ Crash(log)
              /\ UNCHANGED << dev, i >>
    /\ UNCHANGED << cameras, params, frames, files, ncmd, resTrail >>

----------------------------------------------------------------------------
(* specifications *)

\* One more key of the operator's budget is used.
Counted == ncmd < MaxCommands /\ ncmd' = ncmd + 1

\* The whole program: every key, every fault.
Next ==
    \/ \E ok \in BOOLEAN : SetupDirectory(ok)
    \/ \E ok \in BOOLEAN : SetupOpen(ok)
    \/ \E ok \in BOOLEAN : SetupConfigure(ok)
    \/ \E ok \in BOOLEAN : SetupStart(ok)
    \/ \E ok \in BOOLEAN : CaptureFrame(ok)
    \/ Display
    \/ \E raw \in RawKeys : Counted /\ KeySelect(raw)
    \/ \E raw \in RawKeys, outcome \in SnapshotOutcomes :
          Counted /\ KeySaveActive(raw, outcome)
    \/ \E raw \in RawKeys : Counted /\ KeySaveAll(raw)
    \/ \E outcome \in SnapshotOutcomes : SaveAllStep(outcome)
    \/ \E raw \in RawKeys : Counted /\ KeyResolution(raw)
    \/ \E ok \in BOOLEAN : ReconfStop(ok)
    \/ \E ok \in BOOLEAN, ev \in -8 .. 8 : ReconfConfigure(ok, ev)
    \/ \E ok \in BOOLEAN : ReconfStart(ok)
    \/ \E raw \in RawKeys, ok \in BOOLEAN : Counted /\ KeyExposure(raw, ok)
    \/ \E raw \in RawKeys : Counted /\ KeyBrightness(raw)
    \/ \E raw \in RawKeys : Counted /\ KeyPreview(raw)
    \/ \E raw \in RawKeys : Counted /\ KeyOther(raw)
    \/ \E raw \in RawKeys : KeyQuit(raw)
    \/ CleanupWindows
    \/ \E ok \in BOOLEAN : CleanupStop(ok)

Spec == Init /\ [][Next]_vars

\* The camera that is not active is within MaxOtherSteps steps of its
\* initial values.
OtherCameraNear ==
    LET other == 1 - active_camera IN
    /\ exposure_values[other] \in -MaxOtherSteps .. MaxOtherSteps
    /\ brightness_values[other] \in -5 * MaxOtherSteps .. 5 * MaxOtherSteps

\* The operator only selects cameras and adjusts exposure and brightness,
\* as often as they like, and no collaborator call raises.
NextAdjust ==
    \/ SetupDirectory(TRUE)
    \/ SetupOpen(TRUE)
    \/ SetupConfigure(TRUE)
    \/ SetupStart(TRUE)
    \/ CaptureFrame(TRUE)
    \/ Display
    \/ \E raw \in RawKeys : KeySelect(raw) /\ UNCHANGED ncmd
    \/ \E raw \in RawKeys :
          OtherCameraNear /\ KeyExposure(raw, TRUE) /\ UNCHANGED ncmd
    \/ \E raw \in RawKeys :
          OtherCameraNear /\ KeyBrightness(raw) /\ UNCHANGED ncmd

SpecAdjust == Init /\ [][NextAdjust]_vars

----------------------------------------------------------------------------
(* reading the log *)

\* The entries of the log with the given operation.
Entries(op) == {k \in DOMAIN calls : calls[k].op = op}

\* The iteration polled this key.
PolledKey(ch) ==
    \E k \in Entries("waitKey") : calls[k].arg = <<Ord[ch]>>

\* The loop is between two commands: at the top of an iteration.
AtLoopTop == pc = "capture" /\ i = 0

----------------------------------------------------------------------------
(* C1 *)

\* C1: after any sequence of commands, for both slots the exposure value is
\* an integer in [-8, 8] and the brightness value an integer in [-100, 100].
C1_ParametersInRange ==
    \A s \in Slots :
        /\ exposure_values[s] \in -8 .. 8
        /\ brightness_values[s] \in -100 .. 100

\* Camera 2 sits at the upper exposure bound and the lower brightness bound,
\* and the command just dispatched stepped brightness down at that bound.
C1_Witness ==
    /\ AtLoopTop
    /\ exposure_values[1] = 8
    /\ brightness_values[1] = -100
    /\ \E k \in Entries("adjust_brightness") :
          calls[k].slot = 1 /\ calls[k].arg = <<-100, -1>>

----------------------------------------------------------------------------
(* C2 *)

\* n steps of adjust_exposure / adjust_brightness in one direction, each
\* step computed before the next is taken.
RECURSIVE ExposureSteps(_, _, _)
ExposureSteps(v, direction, n) ==
    IF n = 0 THEN v
    ELSE LET w == ExposureAfter(v, direction) IN
         IF w \in Int THEN ExposureSteps(w, direction, n - 1) ELSE w

RECURSIVE BrightnessSteps(_, _, _)
BrightnessSteps(v, direction, n) ==
    IF n = 0 THEN v
    ELSE LET w == BrightnessAfter(v, direction) IN
         IF w \in Int THEN BrightnessSteps(w, direction, n - 1) ELSE w

\* The scenario: ten exposure-up and fifty brightness-down commands from 0.
TenExposureUp == ExposureSteps(0, "up", 10)
FiftyBrightnessDown == BrightnessSteps(0, "down", 50)

\* The value a step must produce from old: one step of the given size in
\* direction d (1 up, -1 down), except that a step leaving [lo, hi] stops at
\* the bound.
Stepped(old, d, size, lo, hi) ==
    IF d = 1
      THEN (IF old + size > hi THEN hi ELSE old + size)
      ELSE (IF old - size < lo THEN lo ELSE old - size)

\* C2: one exposure step yields min(8, e+1) for up and max(-8, e-1) for down,
\* one brightness step min(100, b+5) and max(-100, b-5); a step at a bound
\* leaves the value unchanged and the loop goes on; ten exposure-up from 0
\* give 8 and fifty brightness-down from 0 give -100.
C2_StepLaw ==
    /\ \A k \in Entries("adjust_exposure") :
          /\ exposure_values[calls[k].slot] =
                Stepped(calls[k].arg[1], calls[k].arg[2], 1, -8, 8)
          /\ (calls[k].arg \in {<<8, 1>>, <<-8, -1>>}) =>
                /\ exposure_values[calls[k].slot] = calls[k].arg[1]
                /\ pc = "capture"
    /\ \A k \in Entries("adjust_brightness") :
          /\ brightness_values[calls[k].slot] =
                Stepped(calls[k].arg[1], calls[k].arg[2], 5, -100, 100)
          /\ (calls[k].arg \in {<<100, 1>>, <<-100, -1>>}) =>
                /\ brightness_values[calls[k].slot] = calls[k].arg[1]
                /\ pc = "capture"
    /\ TenExposureUp = 8
    /\ FiftyBrightnessDown = -100

\* On camera 1 brightness is at -100 and the command just dispatched asked
\* for exposure up at the bound 8.
C2_Witness ==
    /\ AtLoopTop
    /\ brightness_values[0] = -100
    /\ exposure_values[0] = 8
    /\ \E k \in Entries("adjust_exposure") :
          calls[k].slot = 0 /\ calls[k].arg = <<8, 1>>

----------------------------------------------------------------------------
(* C3 *)

\* The index after k: one further, the last option followed by the first.
Successor(k) == IF k = 3 THEN 0 ELSE k + 1

\* C3: the resolution index is always a valid index of the option list, each
\* cycle-resolution command advances it by exactly 1 modulo the option
\* count, and after as many commands as there are options (4) the index and
\* the selected (width, height) pair are the original ones.
C3_ResolutionCycle ==
    /\ current_resolution_idx \in 0 .. 3
    /\ Len(resolution_options) = 4
    /\ \A k \in DOMAIN resTrail :
          Successor(resTrail[k]) =
             (IF k < Len(resTrail) THEN resTrail[k + 1] ELSE current_resolution_idx)
    /\ Len(resTrail) = 4 =>
          /\ resTrail[1] = current_resolution_idx
          /\ ResolutionAt(resTrail[1]) = ResolutionAt(current_resolution_idx)

\* Four cycle-resolution commands, started from index 1, are complete.
C3_Witness ==
    /\ AtLoopTop
    /\ Len(resTrail) = 4
    /\ resTrail[1] = 1
    /\ current_resolution_idx = 1
    /\ PolledKey("r")

----------------------------------------------------------------------------
(* C4 *)

\* C4: whenever the loop is between commands, every slot's device is
\* configured with resolution_options[current_resolution_idx] and runs with
\* the exposure value recorded in exposure_values.
C4_LiveMatchesRecorded ==
    AtLoopTop =>
        \A s \in Slots :
            /\ dev[cameras[s + 1]].size = ResolutionAt(current_resolution_idx)
            /\ dev[cameras[s + 1]].ev = exposure_values[s]

----------------------------------------------------------------------------
(* C5 *)

\* The position of the poll in the log of the iteration.
PollIndex == CHOOSE k \in Entries("waitKey") : TRUE

\* C5: once a save-all command is over, a save of every slot was attempted,
\* also when the save of slot 0 failed.
C5_SaveAllAttemptsEverySlot ==
    (PolledKey("d") /\ pc # "saveall") =>
        \A s \in Slots :
            \E k \in Entries("capture_array") :
                k > PollIndex /\ calls[k].slot = cameras[s + 1]

----------------------------------------------------------------------------
(* C6 *)

\* The iteration ended in an exception before it polled a key: a capture
\* of the capture loop raised.
LoopCaptureFailed ==
    /\ Entries("raise") # {}
    /\ Entries("waitKey") = {}
    /\ Entries("capture_array") # {}

\* C6: a capture that fails in the loop does not end the loop.
C6_CaptureFaultKeepsLoop ==
    LoopCaptureFailed => pc # "crashed"

----------------------------------------------------------------------------
(* C7 *)

\* C7: a fault while one slot is reconfigured does not end the loop, and
\* the other slot is reconfigured with the new resolution and started.
C7_ReconfigurationFaultContained ==
    (PolledKey("r") /\ Entries("raise") # {}) =>
        /\ pc # "crashed"
        /\ \E s \in Slots :
              /\ dev[s].state = "started"
              /\ dev[s].size = ResolutionAt(current_resolution_idx)
              /\ \E k \in Entries("start") : calls[k].slot = s

----------------------------------------------------------------------------
(* C8 *)

\* The device calls of the log, in order.
DeviceCalls ==
    SelectSeq(calls, LAMBDA c : c.op \in {"stop", "configure", "start"})

\* stop, configure, start of slot 0, then of slot 1, all with one resolution.
OrderedReconfiguration(resolution) ==
    << Call("stop", 0, << >>), Call("configure", 0, resolution), Call("start", 0, << >>),
       Call("stop", 1, << >>), Call("configure", 1, resolution), Call("start", 1, << >>) >>

IsPrefix(a, b) ==
    Len(a) <= Len(b) /\ \A k \in 1 .. Len(a) : a[k] = b[k]

\* C8: during a cycle-resolution command the device calls are, in order,
\* stop(0), configure(0), start(0), stop(1), configure(1), start(1), all of a
\* completed command and a prefix up to a call that raises; slot 0 is
\* started again before slot 1 is stopped, so the two devices are never out
\* of the started state together; both are configured with the option the
\* advanced index selects.
C8_ReconfigurationOrdered ==
    PolledKey("r") =>
        LET resolution == ResolutionAt(Successor(resTrail[Len(resTrail)])) IN
        /\ IsPrefix(DeviceCalls, OrderedReconfiguration(resolution))
        /\ AtLoopTop => DeviceCalls = OrderedReconfiguration(resolution)
        /\ \E s \in Slots : dev[s].state = "started"
        /\ \A k \in Entries("stop") :
              calls[k].slot = 1 =>
                 /\ dev[0].state = "started"
                 /\ dev[0].size = resolution
        /\ AtLoopTop => \A s \in Slots : dev[s].size = resolution

\* A cycle-resolution command to 1920x1080 is complete and both devices run.
C8_Witness ==
    /\ AtLoopTop
    /\ PolledKey("r")
    /\ Len(DeviceCalls) = 6
    /\ \A s \in Slots : dev[s].state = "started" /\ dev[s].size = <<1920, 1080>>

----------------------------------------------------------------------------
(* C9 *)

\* C9: a snapshot whose file is not written is not reported as saved, and
\* the loop keeps running.
C9_PersistenceFailureSurfaced ==
    \A k \in Entries("imwrite") :
        calls[k].arg[5] = 0 =>
            /\ pc # "crashed"
            /\ ~ \E j \in Entries("print_saved") :
                    j > k /\ calls[j].slot = calls[k].slot

----------------------------------------------------------------------------
(* C10 *)

SetupPositions == {"setup_dir", "setup_open", "setup_configure", "setup_start"}

\* A call only an iteration of the control loop makes is in the log.
LoopCallLogged ==
    Entries("capture_array") \cup Entries("imshow") \cup Entries("waitKey") # {}

\* C10: when opening, configuring or starting a device fails during
\* initialization the process ends there, and the loop runs only after both
\* devices were configured and started.
C10_NoLoopWithoutInit ==
    /\ (pc \notin SetupPositions \cup {"exited"}) =>
          /\ cameras = <<0, 1>>
          /\ \A s \in Slots : dev[s].state \in {"started", "stopped", "configured"}
          /\ \A s \in Slots : dev[s].size \in {resolution_options[k] : k \in 1 .. 4}
    /\ LoopCallLogged => pc \notin SetupPositions \cup {"exited"}
    /\ (pc \in SetupPositions) => Entries("raise") = {}
    /\ (pc = "exited") =>
          /\ Entries("raise") # {}
          /\ calls[Len(calls)] = Call("exit", -1, <<1>>)
          /\ ~ ENABLED Next

\* The first device runs, the second failed to start, the process is gone.
C10_Witness ==
    /\ pc = "exited"
    /\ dev[0].state = "started"
    /\ dev[1].state = "configured"
    /\ \E k \in Entries("start") : calls[k].slot = 1

----------------------------------------------------------------------------
(* runs in which no device call raises *)

\* Every key, and no call to the camera driver or the codec raises
\* (cv2.imwrite may still return False).
NextNoFault ==
    \/ SetupDirectory(TRUE)
    \/ SetupOpen(TRUE)
    \/ SetupConfigure(TRUE)
    \/ SetupStart(TRUE)
    \/ CaptureFrame(TRUE)
    \/ Display
    \/ \E raw \in RawKeys : Counted /\ KeySelect(raw)
    \/ \E raw \in RawKeys, outcome \in {"ok", "write_false"} :
          Counted /\ KeySaveActive(raw, outcome)
    \/ \E raw \in RawKeys : Counted /\ KeySaveAll(raw)
    \/ \E outcome \in {"ok", "write_false"} : SaveAllStep(outcome)
    \/ \E raw \in RawKeys : Counted /\ KeyResolution(raw)
    \/ ReconfStop(TRUE)
    \/ \E ev \in -8 .. 8 : ReconfConfigure(TRUE, ev)
    \/ ReconfStart(TRUE)
    \/ \E raw \in RawKeys : Counted /\ KeyExposure(raw, TRUE)
    \/ \E raw \in RawKeys : Counted /\ KeyBrightness(raw)
    \/ \E raw \in RawKeys : Counted /\ KeyPreview(raw)
    \/ \E raw \in RawKeys : Counted /\ KeyOther(raw)
    \/ \E raw \in RawKeys : KeyQuit(raw)
    \/ CleanupWindows
    \/ CleanupStop(TRUE)

\* The thread always takes its next step (waitKey(1) returns after 1 ms),
\* and an operator who has used the key budget presses quit.
SpecNoFault == Init /\ [][NextNoFault]_vars /\ WF_vars(NextNoFault)

----------------------------------------------------------------------------
(* C11 *)

\* What the iteration did after it polled its key, exceptions left out.
AfterPoll ==
    SelectSeq(SubSeq(calls, PollIndex + 1, Len(calls)), LAMBDA c : c.op # "raise")

\* release of the window, then stop of camera 0, then of camera 1.
QuitSequence ==
    << Call("destroyAllWindows", -1, << >>), Call("stop", 0, << >>),
       Call("stop", 1, << >>), Call("print_terminated", -1, << >>) >>

Terminated == pc = "done" /\ \A s \in Slots : dev[s].state = "stopped"

\* After the quit key: nothing but the cleanup, each camera stopped once,
\* camera 0 first.
QuitCleansUp ==
    /\ PolledKey("q") =>
          /\ pc \in {"cleanup_windows", "cleanup_stop", "done", "crashed"}
          /\ Cardinality(Entries("waitKey")) = 1
          /\ IsPrefix(AfterPoll, QuitSequence)
    /\ pc \in {"cleanup_windows", "cleanup_stop", "done"} => PolledKey("q")
    /\ pc = "done" => AfterPoll = QuitSequence /\ Terminated

\* C11: once quit is polled the loop is left with no further capture,
\* presentation or dispatch, the window is released and every camera is
\* stopped exactly once, camera 0 before camera 1; when no device call
\* raises and the operator eventually quits, the run ends terminated with
\* both cameras stopped.
C11_QuitTerminates == []QuitCleansUp /\ <>Terminated

\* Terminated after at least one command, both cameras stopped.
C11_Witness ==
    /\ Terminated
    /\ ncmd > 0
    /\ AfterPoll = QuitSequence

----------------------------------------------------------------------------
(* C12 *)

\* The step dispatches a key: it starts at the poll and logs the key.
Dispatches == pc = "poll" /\ Len(calls') > Len(calls)

\* The key (after the mask) a dispatching step polled.
DispatchedKey == calls'[Len(calls) + 1].arg[1]

\* The entries of the next state's log that are calls to a camera.
DeviceCallsAfter ==
    {k \in DOMAIN calls' :
        calls'[k].op \in {"stop", "configure", "start", "set_controls"}}

\* A toggle-preview command flips the flag, leaves everything else and calls
\* no camera.
ToggleFlipsOnly ==
    (Dispatches /\ DispatchedKey = Ord["p"]) =>
        /\ preview_active' = ~preview_active
        /\ UNCHANGED << active_camera, exposure_values, brightness_values,
                        current_resolution_idx, dev, files >>
        /\ DeviceCallsAfter = {}
        /\ pc' = "capture"

\* Nothing but a toggle-preview command changes the flag.
OnlyToggleFlips ==
    (preview_active' # preview_active) => (Dispatches /\ DispatchedKey = Ord["p"])

\* C12: a toggle-preview command inverts previewEnabled, so that two of
\* them in a row restore it, leaves the active slot, both slots' exposure
\* and brightness and the resolution index unchanged and makes no device
\* call.
C12_TogglePreview == [][ToggleFlipsOnly /\ OnlyToggleFlips]_vars

\* Two toggle-preview commands were dispatched and the preview is on again.
C12_Witness ==
    /\ AtLoopTop
    /\ ncmd = 2
    /\ PolledKey("p")
    /\ preview_active

----------------------------------------------------------------------------
(* C13 *)

\* The low bytes of the eleven command keys.
CommandKeys == {Ord[ch] : ch \in DOMAIN Ord}

\* What the operation a key maps to may log.
OperationCalls(key) ==
    CASE key \in {Ord["1"], Ord["2"]} -> {"print_selected"}
      [] key \in {Ord["s"], Ord["d"]} -> {"capture_array", "imwrite", "print_saved"}
      [] key = Ord["r"] -> {"stop", "configure", "start", "print_resolution"}
      [] key \in {Ord["e"], Ord["c"]} ->
             {"adjust_exposure", "set_controls", "print_exposure"}
      [] key \in {Ord["b"], Ord["v"]} -> {"adjust_brightness", "print_brightness"}
      [] key = Ord["p"] -> {"print_preview"}
      [] key = Ord["q"] -> {"destroyAllWindows", "stop", "print_terminated"}
      [] OTHER -> {}

\* A key that is no command changes nothing and calls nothing.
OtherKeyIgnored ==
    (Dispatches /\ DispatchedKey \notin CommandKeys) =>
        /\ UNCHANGED << active_camera, preview_active, exposure_values,
                        brightness_values, current_resolution_idx, dev, files,
                        cameras >>
        /\ calls' = Append(calls, Call("waitKey", -1, <<DispatchedKey>>))
        /\ pc' = "capture"

\* One key per iteration, and after it only the operation it maps to, once.
OneOperationPerIteration ==
    /\ Cardinality(Entries("waitKey")) <= 1
    /\ Cardinality(Entries("adjust_exposure") \cup Entries("adjust_brightness")
                   \cup Entries("print_selected") \cup Entries("print_preview")
                   \cup Entries("print_resolution")) <= 1
    /\ Entries("waitKey") # {} =>
          \A k \in 1 .. Len(AfterPoll) :
              AfterPoll[k].op \in OperationCalls(calls[PollIndex].arg[1])

\* C13: an input symbol that is none of the eleven commands (no key
\* included) raises nothing and changes nothing, writes no file and calls
\* no camera; every iteration polls one symbol and performs at most the
\* one operation it maps to.
C13_UnrecognizedIgnored == [][OtherKeyIgnored]_vars /\ []OneOperationPerIteration

\* Two iterations polled no key (255 after the mask) and the loop is back at its top.
C13_Witness ==
    /\ AtLoopTop
    /\ ncmd = 2
    /\ calls[Len(calls)] = Call("waitKey", -1, <<255>>)
    /\ files = {}
    /\ preview_active

----------------------------------------------------------------------------
(* C14 *)

\* The save key was polled: the capture that follows it is of the active
\* camera's device, and the image written is that device's frame under the
\* active camera's label.
SaveActiveUsesActive ==
    PolledKey("s") =>
        /\ Len(AfterPoll) > 0 =>
              AfterPoll[1] = Call("capture_array", active_camera, << >>)
        /\ \A k \in Entries("imwrite") :
              /\ calls[k].slot = active_camera
              /\ calls[k].arg[1] = active_camera + 1
              /\ calls[k].arg[2] = active_camera
              /\ calls[k].arg[5] = 1 => (active_camera + 1) \in files
        /\ Cardinality(Entries("imwrite")) <= 1

\* capture_image(i) reads device i and names the file with label i + 1.
SnapshotLabelled ==
    \A k \in Entries("imwrite") :
        /\ calls[k].arg[1] = calls[k].slot + 1
        /\ calls[k].arg[2] = calls[k].slot

\* C14: save-active captures from, and labels the file for, the slot
\* active when the command is dispatched; saving slot i captures from
\* device i and names the file with label i + 1.
C14_SaveActiveUsesActiveSlot == SaveActiveUsesActive /\ SnapshotLabelled

\* Camera 2 was selected, then the save key wrote device 1's frame as camera2.
C14_Witness ==
    /\ AtLoopTop
    /\ PolledKey("s")
    /\ active_camera = 1
    /\ AfterPoll[1] = Call("capture_array", 1, << >>)
    /\ \E k \in Entries("imwrite") : calls[k].arg[1] = 2 /\ calls[k].arg[5] = 1
    /\ files = {2}

----------------------------------------------------------------------------
(* C15 *)

\* The entries of the next state's log that send a control to a device.
SetControlsAfter == {k \in DOMAIN calls' : calls'[k].op = "set_controls"}

\* An exposure command touches the active camera's exposure and device only.
ExposureOnActiveOnly ==
    (Dispatches /\ DispatchedKey \in {Ord["e"], Ord["c"]}) =>
        /\ \A s \in Slots \ {active_camera} :
              exposure_values'[s] = exposure_values[s] /\ dev'[s] = dev[s]
        /\ UNCHANGED << active_camera, preview_active, brightness_values,
                        current_resolution_idx, files >>
        /\ Cardinality(SetControlsAfter) = 1
        /\ \A k \in SetControlsAfter :
              /\ calls'[k].slot = active_camera
              /\ calls'[k].arg = << exposure_values'[active_camera] >>
        /\ DeviceCallsAfter = SetControlsAfter

\* A brightness command touches the active camera's brightness and no device.
BrightnessOnActiveOnly ==
    (Dispatches /\ DispatchedKey \in {Ord["b"], Ord["v"]}) =>
        /\ \A s \in Slots \ {active_camera} :
              brightness_values'[s] = brightness_values[s]
        /\ UNCHANGED << active_camera, preview_active, exposure_values,
                        current_resolution_idx, files, dev >>
        /\ DeviceCallsAfter = {}

\* C15: an exposure or brightness command dispatched while slot a is
\* active leaves the other slot's exposure and brightness, the active
\* slot, the preview flag and the resolution index unchanged; an exposure
\* command sends the new value to device a only and a brightness command
\* calls no device.
C15_AdjustActiveOnly == [][ExposureOnActiveOnly /\ BrightnessOnActiveOnly]_vars

\* With camera 2 active, exposure went up after brightness: only slot 1 moved.
C15_Witness ==
    /\ AtLoopTop
    /\ PolledKey("e")
    /\ active_camera = 1
    /\ exposure_values[0] = 0 /\ exposure_values[1] = 1
    /\ brightness_values[0] = 0 /\ brightness_values[1] = 5
    /\ dev[0].ev = 0 /\ dev[1].ev = 1

----------------------------------------------------------------------------
(* C16 *)

\* The two captures that open an iteration's log.
BothCaptured ==
    /\ Len(calls) >= 2
    /\ calls[1] = Call("capture_array", 0, << >>)
    /\ calls[2] = Call("capture_array", 1, << >>)

\* Slot 0 then slot 1, both before the display and the poll, nothing in between.
CapturesFirst ==
    /\ (pc = "capture" /\ i = 1) =>
          /\ calls = << Call("capture_array", 0, << >>) >>
          /\ Len(frames) = 1 /\ frames[1].slot = 0
    /\ pc = "display" =>
          /\ BothCaptured /\ Len(calls) = 2
          /\ Len(frames) = 2 /\ frames[1].slot = 0 /\ frames[2].slot = 1
    /\ (pc = "poll" \/ Entries("imshow") \cup Entries("waitKey") # {}) =>
          /\ BothCaptured
          /\ \A k \in Entries("imshow") \cup Entries("waitKey") : k > 2
          /\ \A k \in Entries("imshow"), n \in Entries("waitKey") : k < n

\* C16: in every iteration slot 0 is captured and processed before slot 1,
\* both before the composite is presented and before the input event is
\* polled, and no command is dispatched between the two captures.
C16_CaptureOrder == CapturesFirst

\* One full iteration: capture 0, capture 1, display, poll.
C16_Witness ==
    /\ AtLoopTop
    /\ ncmd = 1
    /\ Len(calls) = 4
    /\ BothCaptured
    /\ calls[3].op = "imshow"
    /\ calls[4].op = "waitKey"

----------------------------------------------------------------------------
(* C17 *)

\* The display is called once when the preview is on and not when it is
\* off; with the preview off both frames are still captured and the poll
\* still takes the quit and the preview keys.
PreviewGate ==
    /\ Cardinality(Entries("imshow")) <= 1
    /\ pc = "poll" =>
          /\ BothCaptured
          /\ (Entries("imshow") # {}) <=> preview_active
    /\ Entries("waitKey") # {} =>
          ((Entries("imshow") # {}) <=> (preview_active # PolledKey("p")))
    /\ (pc = "poll" /\ ~preview_active) =>
          /\ ENABLED KeyQuit(Ord["q"])
          /\ ENABLED KeyPreview(Ord["p"])
          /\ ENABLED KeySelect(Ord["2"])

\* C17: the composite is presented exactly once in an iteration when
\* previewEnabled is true and not at all when it is false; with the
\* preview disabled the loop still captures both slots and still polls
\* and dispatches commands.
C17_PreviewGate == PreviewGate

\* With the preview paused an iteration showed nothing and its exposure
\* command took effect.
C17_Witness ==
    /\ AtLoopTop
    /\ ~preview_active
    /\ PolledKey("e")
    /\ BothCaptured
    /\ Entries("imshow") = {}
    /\ exposure_values[0] = 1

----------------------------------------------------------------------------
(* C18 *)

\* Every image written comes from a capture made for it, of the requested
\* camera's device, after the display of the iteration; it carries that
\* camera's brightness and no overlay.
SnapshotIsFresh ==
    \A k \in Entries("imwrite") :
        /\ k > 1
        /\ calls[k - 1] = Call("capture_array", calls[k].arg[2], << >>)
        /\ Entries("waitKey") # {} /\ k - 1 > PollIndex
        /\ calls[k].arg[2] = calls[k].slot
        /\ calls[k].arg[3] = brightness_values[calls[k].slot]
        /\ calls[k].arg[4] = 0

\* A step of a save command leaves the parameters alone.
SaveKeepsParams ==
    ((Dispatches /\ DispatchedKey \in {Ord["s"], Ord["d"]}) \/ pc = "saveall") =>
        UNCHANGED params

\* C18: a saved snapshot is a freshly captured frame of the requested
\* slot with that slot's brightness offset applied and without overlay or
\* border, and a save command leaves active slot, preview flag, exposure,
\* brightness and resolution index unchanged.
C18_SnapshotFresh == []SnapshotIsFresh /\ [][SaveKeepsParams]_vars

\* After brightness up on camera 2, save-all wrote both files, the second
\* with offset 5.
C18_Witness ==
    /\ AtLoopTop
    /\ PolledKey("d")
    /\ brightness_values[1] = 5
    /\ files = {1, 2}
    /\ \E k \in Entries("imwrite") : calls[k].arg = <<2, 1, 5, 0, 1>>

----------------------------------------------------------------------------
(* C19 *)

\* The cameras the for loop at position i still has to visit.
Remaining == {cameras[k] : k \in (i + 1) .. Len(cameras)}

\* Wherever a capture is the next device call, its device is started; and
\* no capture follows the quit.
CaptureOnStarted ==
    /\ pc # "crashed"
    /\ pc \in {"capture", "saveall"} =>
          \A s \in Remaining : dev[s].state = "started"
    /\ pc \in {"display", "poll"} =>
          /\ Len(cameras) = 2
          /\ \A s \in Slots : dev[s].state = "started"
    /\ pc \in {"cleanup_windows", "cleanup_stop", "done"} =>
          \A k \in 1 .. Len(AfterPoll) : AfterPoll[k].op # "capture_array"

\* C19: in a run in which no device call raises, a capture (in the loop
\* or for a snapshot) is never invoked on a device that is not started:
\* both are started before the first iteration, every stop of
\* cycle-resolution is followed by a start before any capture, and no
\* capture follows the stop at quit.
C19_CaptureOnStarted == CaptureOnStarted

\* After a cycle-resolution a snapshot was taken at the new size.
C19_Witness ==
    /\ AtLoopTop
    /\ PolledKey("s")
    /\ resTrail = <<0>>
    /\ files = {1}
    /\ \A s \in Slots : dev[s].state = "started" /\ dev[s].size = ResolutionAt(1)

----------------------------------------------------------------------------
(* C20 *)

\* The process has ended.
Ended == pc \in {"done", "exited", "crashed"}

\* C20: on every path by which the process ends (quit, initialization
\* failure, a fault in the loop or in cycle-resolution) no device is left
\* started.
C20_NoDeviceLeftStarted == Ended => \A s \in Slots : dev[s].state # "started"

====
